---------------------------- MODULE Spec2Model ----------------------------
(***************************************************************************)
(* A model of the BGZF block writer of noodles-bgzf (src/writer.rs).       *)
(*                                                                         *)
(* Byte strings (the caller's buffers, the bytes held by the compressor,   *)
(* the payload a block decodes to) are kept run-length encoded: a string   *)
(* is a sequence of runs [b |-> byte, n |-> count], n > 0, adjacent runs   *)
(* of different bytes.  This is an exact, canonical representation, and    *)
(* lets the model hold the real block size (65536) in a state.             *)
(*                                                                         *)
(* The sink `inner` is a sequence of tokens.  A token is one byte          *)
(* [byte |-> 0..255] or one compressed payload                             *)
(* [deflate |-> the bytes it inflates to, len |-> its length in bytes]:    *)
(* the deflate stream itself is produced by the flate2 crate and is kept   *)
(* opaque, but its length is not.                                          *)
(***************************************************************************)
EXTENDS Integers, Sequences, FiniteSets, TLC

VARIABLES
    inner,      \* Writer.inner: the sink, a sequence of tokens
    encoder,    \* Writer.encoder: the bytes the compressor took since its reset
    crc,        \* Writer.crc: [sum, amt], the running checksum and byte count
    dropped,    \* TRUE once the Writer has been dropped
    accepted,   \* history: the bytes the write calls reported as accepted
    last,       \* history: the last call, its result, and crc.amount() before it
    writes,     \* history: the number of write calls made so far
    finishes,   \* history: the number of explicit finish calls made so far
    input,      \* caller loop: the bytes handed to the loop
    todo,       \* caller loop: the bytes the loop has still to write
    fault,      \* the sink's failures: [n |-> how many so far, at |-> the write
                \* of the last call that failed (0: none), finished |-> TRUE
                \* while the compressor is left finished by a failed flush_block]
    raw_fields, \* ReferenceSequence::try_from: its argument, (tag, value) pairs
    parsed      \* ReferenceSequence::try_from: its result, NotParsed before it

vars == <<inner, encoder, crc, dropped, accepted, last, writes, finishes,
          input, todo, fault, raw_fields, parsed>>

-----------------------------------------------------------------------------
(* Bounds of the model.                                                    *)

\* The number of write calls and of explicit finish calls of a run.
MaxWrites == 2
MaxFinishes == 1

\* The number of failures of the sink in a run.
MaxFaults == 1

\* The modulus of the model's checksum.
CrcMod == 251

-----------------------------------------------------------------------------
(* Program constants.                                                      *)

MAX_BGZF_BLOCK_SIZE == 65536

BGZF_FLG == 4
BGZF_XFL == 0
BGZF_XLEN == 6
BGZF_SI1 == 66
BGZF_SI2 == 67
BGZF_SLEN == 2

\* super::BGZF_HEADER_SIZE and gz::TRAILER_SIZE: the sizes of the header that
\* write_header writes and of the trailer that write_trailer writes.
BGZF_HEADER_SIZE == 18
TRAILER_SIZE == 8

\* gz::MAGIC_NUMBER, gz::CompressionMethod::Deflate, gz::MTIME_NONE and
\* gz::OperatingSystem::Unknown, as they stand in the first bytes of BGZF_EOF.
MAGIC_NUMBER == <<31, 139>>
CM_DEFLATE == 8
MTIME_NONE == 0
OS_UNKNOWN == 255

\* The width of the `as u16` cast and of write_u16.
U16 == 65536

-----------------------------------------------------------------------------
(* Byte strings, run-length encoded.                                       *)

Min(a, b) == IF a < b THEN a ELSE b

Run(b, n) == IF n = 0 THEN <<>> ELSE <<[b |-> b, n |-> n]>>

RECURSIVE RLen(_)
RLen(r) == IF r = <<>> THEN 0 ELSE Head(r).n + RLen(Tail(r))

\* r followed by s.
RCat(r, s) ==
    IF r = <<>> THEN s
    ELSE IF s = <<>> THEN r
    ELSE IF r[Len(r)].b = s[1].b
         THEN SubSeq(r, 1, Len(r) - 1)
              \o <<[b |-> s[1].b, n |-> r[Len(r)].n + s[1].n]>>
              \o Tail(s)
         ELSE r \o s

\* &r[..k]
RECURSIVE RTake(_, _)
RTake(r, k) ==
    IF k = 0 \/ r = <<>> THEN <<>>
    ELSE IF Head(r).n >= k THEN <<[b |-> Head(r).b, n |-> k]>>
    ELSE <<Head(r)>> \o RTake(Tail(r), k - Head(r).n)

\* &r[k..]
RECURSIVE RDrop(_, _)
RDrop(r, k) ==
    IF k = 0 \/ r = <<>> THEN r
    ELSE IF Head(r).n > k THEN <<[b |-> Head(r).b, n |-> Head(r).n - k]>> \o Tail(r)
    ELSE RDrop(Tail(r), k - Head(r).n)

-----------------------------------------------------------------------------
(* flate2::Crc: a running checksum with the count of the bytes it has      *)
(* seen.  CRC-32 itself is the crate's; the model keeps a Fletcher sum     *)
(* modulo CrcMod, which like CRC-32 is 0 on no input and depends on every  *)
(* byte, on the order of the bytes and on their number.                    *)

\* Crc::new() and the state after Crc::reset()
CrcNew == [a |-> 0, c |-> 0, amt |-> 0]

\* k (k + 1) / 2 modulo CrcMod
Tri(k) == LET j == k % (2 * CrcMod) IN ((j * (j + 1)) \div 2) % CrcMod

\* Crc::update over a run of n bytes b: each byte adds b + 1 to a, then a to c.
CrcRun(s, b, n) ==
    LET k == n % CrcMod
        v == (b + 1) % CrcMod
    IN  [a   |-> (s.a + k * v) % CrcMod,
         c   |-> (s.c + k * s.a + v * Tri(n)) % CrcMod,
         amt |-> s.amt + n]

\* Crc::update(&data)
RECURSIVE CrcUpdate(_, _)
CrcUpdate(s, data) ==
    IF data = <<>> THEN s
    ELSE CrcUpdate(CrcRun(s, Head(data).b, Head(data).n), Tail(data))

\* Crc::sum()
CrcSum(s) == s.c * CrcMod + s.a

\* Crc::amount()
CrcAmount(s) == s.amt

-----------------------------------------------------------------------------
(* The sink's tokens.                                                      *)

Bytes(s) == [i \in 1..Len(s) |-> [byte |-> s[i]]]

IsByte(t) == "byte" \in DOMAIN t

\* write_u8, write_u16::<LittleEndian>, write_u32::<LittleEndian>
LE8(v) == Bytes(<<v % 256>>)
LE16(v) == Bytes(<<v % 256, (v \div 256) % 256>>)
LE32(v) == Bytes(<<v % 256, (v \div 256) % 256,
                   (v \div 65536) % 256, (v \div 16777216) % 256>>)

\* The value of little-endian byte tokens.
RECURSIVE LEValue(_)
LEValue(s) == IF s = <<>> THEN 0 ELSE Head(s).byte + 256 * LEValue(Tail(s))

BGZF_EOF ==
    Bytes(<<31, 139, 8, 4, 0, 0, 0, 0, 0, 255, 6, 0, 66, 67, 2, 0,
            27, 0, 3, 0, 0, 0, 0, 0, 0, 0, 0, 0>>)

-----------------------------------------------------------------------------
(* flate2::write::DeflateEncoder<Vec<u8>>.  `encoder` holds the bytes the  *)
(* compressor has consumed since its last reset.                           *)

\* DeflateEncoder::write(&buf[..n]): the number of bytes the compressor may
\* report as consumed.  It is an io::Write: it may take less than it is given,
\* and takes at least one byte of a non-empty buffer.  The model lets it take
\* everything, or stop after half a block of a longer buffer.
EncoderAccepts(n) ==
    {n} \cup (IF n > MAX_BGZF_BLOCK_SIZE \div 2 THEN {MAX_BGZF_BLOCK_SIZE \div 2} ELSE {})

\* The longest deflate stream of n bytes: stored blocks, each with 5 bytes of
\* framing for at most 65535 bytes.
DeflateBound(n) == n + 5 * ((n + 65534) \div 65535)

\* The shortest one: deflate shrinks its input at most 1032 times.
DeflateBest(n) == 2 + (n \div 1032)

\* encoder.try_finish(); encoder.get_ref().len(): the lengths the compressed
\* payload of n bytes may have.
CompressedLens(n) == {DeflateBest(n), DeflateBound(n)}

-----------------------------------------------------------------------------
(* The Writer.  A Writer value is [inner, encoder, crc]; every operation   *)
(* returns [w |-> the Writer after it, res |-> "Ok" or the error kind,     *)
(* n |-> the count of an Ok(n)].                                           *)

\* let bsize = (cdata_len + BGZF_HEADER_SIZE + gz::TRAILER_SIZE - 1) as u16;
bsize(cdata_len) == (cdata_len + BGZF_HEADER_SIZE + TRAILER_SIZE - 1) % U16

write_header(cdata_len) ==
    Bytes(MAGIC_NUMBER)
    \o LE8(CM_DEFLATE)
    \o LE8(BGZF_FLG)
    \o LE32(MTIME_NONE)
    \o LE8(BGZF_XFL)
    \o LE8(OS_UNKNOWN)
    \o LE16(BGZF_XLEN)
    \o LE8(BGZF_SI1)
    \o LE8(BGZF_SI2)
    \o LE16(BGZF_SLEN)
    \o LE16(bsize(cdata_len))

write_trailer(checksum, uncompressed_size) ==
    LE32(checksum) \o LE32(uncompressed_size)

\* flush_block without self.crc.reset().
crc_after_flush_NoReset(c) == c

\* The state of the checksum after flush_block.
crc_after_flush(c) == CrcNew

\* flush_block without self.encoder.reset(Vec::new()).
flush_block_NoEncoderReset(w, cdata_len) ==
    LET data == [deflate |-> w.encoder, len |-> cdata_len]
    IN  [w   |-> [inner   |-> w.inner
                              \o write_header(cdata_len)
                              \o <<data>>
                              \o write_trailer(CrcSum(w.crc), CrcAmount(w.crc)),
                  encoder |-> w.encoder,
                  crc     |-> CrcNew],
         res |-> "Ok",
         n   |-> 0]

flush_block(w, cdata_len) ==
    LET data == [deflate |-> w.encoder, len |-> cdata_len]
    IN  [w   |-> [inner   |-> w.inner
                              \o write_header(cdata_len)
                              \o <<data>>
                              \o write_trailer(CrcSum(w.crc), CrcAmount(w.crc)),
                  encoder |-> <<>>,
                  crc     |-> crc_after_flush(w.crc)],
         res |-> "Ok",
         n   |-> 0]

\* flush without the test of crc.amount().
flush_Always(w, cdata_len) == flush_block(w, cdata_len)

flush(w, cdata_len) ==
    IF CrcAmount(w.crc) > 0
    THEN flush_block(w, cdata_len)
    ELSE [w |-> w, res |-> "Ok", n |-> 0]

\* finish without the end-of-file marker.
finish_NoEof(w, cdata_len) == flush(w, cdata_len)

\* finish without the flush.
finish_NoFlush(w, cdata_len) ==
    [w |-> [w EXCEPT !.inner = @ \o BGZF_EOF], res |-> "Ok", n |-> 0]

finish(w, cdata_len) ==
    LET f == flush(w, cdata_len)
    IN  [f EXCEPT !.w.inner = @ \o BGZF_EOF]

\* write without the cap on what it hands to the compressor.
bytes_to_be_written_NoCap(total_uncompressed_bytes_written, len) == len

\* cmp::min((MAX_BGZF_BLOCK_SIZE - total_uncompressed_bytes_written) as usize, buf.len())
bytes_to_be_written(total_uncompressed_bytes_written, len) ==
    Min(MAX_BGZF_BLOCK_SIZE - total_uncompressed_bytes_written, len)

\* > for >=
is_full_Strict(total_uncompressed_bytes_written) ==
    total_uncompressed_bytes_written > MAX_BGZF_BLOCK_SIZE

\* if total_uncompressed_bytes_written >= MAX_BGZF_BLOCK_SIZE
is_full(total_uncompressed_bytes_written) ==
    total_uncompressed_bytes_written >= MAX_BGZF_BLOCK_SIZE

\* write with self.crc.update(buf): the checksum runs over the whole buffer.
write_CrcWholeBuf(w, buf, bytes_written, cdata_len) ==
    IF is_full(CrcAmount(w.crc))
    THEN [flush(w, cdata_len) EXCEPT !.res = "Interrupted"]
    ELSE [w   |-> [inner   |-> w.inner,
                   encoder |-> RCat(w.encoder, RTake(buf, bytes_written)),
                   crc     |-> CrcUpdate(w.crc, buf)],
          res |-> "Ok",
          n   |-> bytes_written]

\* write that returns Interrupted on a full buffer without flushing it.
write_NoFlush(w, buf, bytes_written, cdata_len) ==
    IF is_full(CrcAmount(w.crc))
    THEN [w |-> w, res |-> "Interrupted", n |-> 0]
    ELSE [w   |-> [inner   |-> w.inner,
                   encoder |-> RCat(w.encoder, RTake(buf, bytes_written)),
                   crc     |-> CrcUpdate(w.crc, RTake(buf, bytes_written))],
          res |-> "Ok",
          n   |-> bytes_written]

\* write(buf), where the compressor consumes bytes_written bytes of what it is
\* given and cdata_len is the length of the payload of a block it flushes.
write(w, buf, bytes_written, cdata_len) ==
    IF is_full(CrcAmount(w.crc))
    THEN [flush(w, cdata_len) EXCEPT !.res = "Interrupted"]
    ELSE [w   |-> [inner   |-> w.inner,
                   encoder |-> RCat(w.encoder, RTake(buf, bytes_written)),
                   crc     |-> CrcUpdate(w.crc, RTake(buf, bytes_written))],
          res |-> "Ok",
          n   |-> bytes_written]

\* The choices write leaves to the compressor.
WriteTakes(w, buf) ==
    EncoderAccepts(bytes_to_be_written(CrcAmount(w.crc), RLen(buf)))

-----------------------------------------------------------------------------
(* The state machine: a caller making any calls on one Writer.             *)

Self == [inner |-> inner, encoder |-> encoder, crc |-> crc]

\* The buffers the caller passes to write.
Noodles == <<[b |-> 110, n |-> 1], [b |-> 111, n |-> 2], [b |-> 100, n |-> 1],
             [b |-> 108, n |-> 1], [b |-> 101, n |-> 1], [b |-> 115, n |-> 1]>>
Pattern(n) == RCat(Run(85, n % 2), Run(170, n - (n % 2)))
WriteBufs == {<<>>, Noodles, Pattern(MAX_BGZF_BLOCK_SIZE + 1)}

Call(op, r, buf) ==
    [op |-> op, res |-> r.res, n |-> r.n, buf |-> buf, amt0 |-> CrcAmount(crc)]

\* After a call in which the sink did not fail: the compressor stays finished
\* until flush_block has reset it.
Settled(r) ==
    [fault EXCEPT !.at = 0, !.finished = @ /\ CrcAmount(r.w.crc) > 0]

Becomes(r) ==
    /\ inner' = r.w.inner
    /\ encoder' = r.w.encoder
    /\ crc' = r.w.crc
    /\ fault' = Settled(r)

\* ReferenceSequence::try_from has not been called.
NotParsed == [kind |-> "NotParsed"]

\* No failure of the sink so far.
NoFault == [n |-> 0, at |-> 0, finished |-> FALSE]

Init ==
    /\ inner = <<>>
    /\ encoder = <<>>
    /\ crc = CrcNew
    /\ dropped = FALSE
    /\ accepted = <<>>
    /\ last = [op |-> "new", res |-> "Ok", n |-> 0, buf |-> <<>>, amt0 |-> 0]
    /\ writes = 0
    /\ finishes = 0
    /\ input = <<>>
    /\ todo = <<>>
    /\ fault = NoFault
    /\ raw_fields = <<>>
    /\ parsed = NotParsed

\* The sink of the model fails for good: once a write to it has failed, every
\* later one fails too (a full disk, a closed pipe).
SinkUp == fault.n = 0

\* A write that succeeds: on a full buffer it flushes to the sink; otherwise it
\* writes to the compressor, and the model makes no call of encoder.write on a
\* compressor that a failed flush_block has left finished (what the compressor
\* does then is the crate's).
CanWrite == IF is_full(CrcAmount(crc)) THEN SinkUp ELSE ~fault.finished

Write ==
    /\ ~dropped
    /\ writes < MaxWrites
    /\ CanWrite
    /\ \E buf \in WriteBufs :
       \E k \in WriteTakes(Self, buf) :
       \E cdata_len \in CompressedLens(RLen(encoder)) :
          LET r == write(Self, buf, k, cdata_len)
          IN  /\ Becomes(r)
              /\ accepted' = RCat(accepted, RTake(buf, r.n))
              /\ last' = Call("write", r, buf)
    /\ writes' = writes + 1
    /\ UNCHANGED <<dropped, finishes, input, todo, raw_fields, parsed>>

Flush ==
    /\ ~dropped
    /\ CrcAmount(crc) = 0 \/ SinkUp
    /\ \E cdata_len \in CompressedLens(RLen(encoder)) :
          LET r == flush(Self, cdata_len)
          IN  /\ Becomes(r)
              /\ last' = Call("flush", r, <<>>)
    /\ UNCHANGED <<dropped, accepted, writes, finishes, input, todo, raw_fields, parsed>>

Finish ==
    /\ ~dropped
    /\ finishes < MaxFinishes
    /\ SinkUp
    /\ \E cdata_len \in CompressedLens(RLen(encoder)) :
          LET r == finish(Self, cdata_len)
          IN  /\ Becomes(r)
              /\ last' = Call("finish", r, <<>>)
    /\ finishes' = finishes + 1
    /\ UNCHANGED <<dropped, accepted, writes, input, todo, raw_fields, parsed>>

\* A teardown that does not call finish().
Drop_NoFinish ==
    /\ ~dropped
    /\ SinkUp
    /\ last' = [Call("drop", [w |-> Self, res |-> "Ok", n |-> 0], <<>>)
                   EXCEPT !.res = "Ok"]
    /\ dropped' = TRUE
    /\ UNCHANGED <<inner, encoder, crc, fault, accepted, writes, finishes,
                   input, todo, raw_fields, parsed>>

\* impl Drop: let _r = self.finish();
Drop ==
    /\ ~dropped
    /\ SinkUp
    /\ \E cdata_len \in CompressedLens(RLen(encoder)) :
          LET r == finish(Self, cdata_len)
          IN  /\ Becomes(r)
              /\ last' = [Call("drop", r, <<>>) EXCEPT !.res = "Ok"]
    /\ dropped' = TRUE
    /\ UNCHANGED <<accepted, writes, finishes, input, todo, raw_fields, parsed>>

Next == Write \/ Flush \/ Finish \/ Drop

Spec == Init /\ [][Next]_vars

-----------------------------------------------------------------------------
(* A sink that fails.  flush_block writes to the sink in 14 calls: 11 for  *)
(* the header, one for the payload, two for the trailer; finish makes one  *)
(* more, for the end-of-file marker.  A call of the Writer in which the    *)
(* sink fails is told by the number `at` of the write that fails: the      *)
(* writes before it have reached the sink, it and the later ones have not. *)
(* A write that fails leaves nothing of its own bytes in the sink: what a   *)
(* write_all that fails half-way leaves there is the sink's.               *)

\* The writes of write_header.
header_writes(cdata_len) ==
    <<Bytes(MAGIC_NUMBER), LE8(CM_DEFLATE), LE8(BGZF_FLG), LE32(MTIME_NONE),
      LE8(BGZF_XFL), LE8(OS_UNKNOWN), LE16(BGZF_XLEN), LE8(BGZF_SI1),
      LE8(BGZF_SI2), LE16(BGZF_SLEN), LE16(bsize(cdata_len))>>

\* The writes of flush_block, in order.
block_writes(w, cdata_len) ==
    header_writes(cdata_len)
    \o <<<<[deflate |-> w.encoder, len |-> cdata_len]>>>>
    \o <<LE32(CrcSum(w.crc)), LE32(CrcAmount(w.crc))>>

BlockWrites == 14
EofWrite == BlockWrites + 1

RECURSIVE Concat(_)
Concat(ss) == IF ss = <<>> THEN <<>> ELSE Head(ss) \o Concat(Tail(ss))

\* flush_block that resets the checksum and the compressor before it writes.
flush_block_fails_ResetFirst(w, cdata_len, at) ==
    [w   |-> [inner   |-> w.inner
                           \o Concat(SubSeq(block_writes(w, cdata_len), 1, at - 1)),
              encoder |-> <<>>,
              crc     |-> CrcNew],
     res |-> "SinkError",
     n   |-> 0]

\* flush_block when write number `at` of it fails: the ? returns the error
\* before encoder.reset() and crc.reset().
flush_block_fails(w, cdata_len, at) ==
    [w   |-> [w EXCEPT !.inner =
                 @ \o Concat(SubSeq(block_writes(w, cdata_len), 1, at - 1))],
     res |-> "SinkError",
     n   |-> 0]

\* The writes at which the model lets a working sink fail: the first of the
\* header, the last of the header, the payload, each of the trailer, and the
\* marker.
FaultAts == {1, 11, 12, 13, BlockWrites, EofWrite}

\* The first write of flush_block.
FirstWrite == 1

\* The writes of a flush that may fail: none when there is nothing to flush,
\* the first when the sink has failed before.
FailsOfFlush(w) ==
    IF CrcAmount(w.crc) = 0 THEN {}
    ELSE IF SinkUp THEN FaultAts \cap (1..BlockWrites)
    ELSE {FirstWrite}

\* The writes of a finish that may fail: those of its flush, and the one of the
\* marker when the flush has gone through.
FailsOfFinish(w) ==
    FailsOfFlush(w) \cup
    (IF CrcAmount(w.crc) = 0 \/ SinkUp THEN FaultAts \cap {EofWrite} ELSE {})

\* flush() when write `at` fails.
flush_fails(w, cdata_len, at) == flush_block_fails(w, cdata_len, at)

\* finish() when write `at` fails: self.flush()? returns the error of a failed
\* flush; a failed write of the marker is the result of finish.
finish_fails(w, cdata_len, at) ==
    IF at = EofWrite
    THEN [flush(w, cdata_len) EXCEPT !.res = "SinkError"]
    ELSE flush_fails(w, cdata_len, at)

\* write() on a full buffer when write `at` of its flush fails: self.flush()?
\* returns the sink's error.
write_fails(w, buf, cdata_len, at) == flush_fails(w, cdata_len, at)

\* After a call in which the sink failed.
Faulted(r, at) ==
    [n        |-> fault.n + 1,
     at       |-> at,
     finished |-> CrcAmount(r.w.crc) > 0]

Fails(r, at) ==
    /\ inner' = r.w.inner
    /\ encoder' = r.w.encoder
    /\ crc' = r.w.crc
    /\ fault' = Faulted(r, at)

WriteFails ==
    /\ ~dropped
    /\ writes < MaxWrites
    /\ fault.n < MaxFaults
    /\ is_full(CrcAmount(crc))
    /\ \E buf \in WriteBufs :
       \E at \in FailsOfFlush(Self) :
       \E cdata_len \in CompressedLens(RLen(encoder)) :
          LET r == write_fails(Self, buf, cdata_len, at)
          IN  /\ Fails(r, at)
              /\ last' = Call("write", r, buf)
    /\ writes' = writes + 1
    /\ UNCHANGED <<dropped, accepted, finishes, input, todo, raw_fields, parsed>>

FlushFails ==
    /\ ~dropped
    /\ fault.n < MaxFaults
    /\ \E at \in FailsOfFlush(Self) :
       \E cdata_len \in CompressedLens(RLen(encoder)) :
          LET r == flush_fails(Self, cdata_len, at)
          IN  /\ Fails(r, at)
              /\ last' = Call("flush", r, <<>>)
    /\ UNCHANGED <<dropped, accepted, writes, finishes, input, todo, raw_fields, parsed>>

FinishFails ==
    /\ ~dropped
    /\ finishes < MaxFinishes
    /\ fault.n < MaxFaults
    /\ \E at \in FailsOfFinish(Self) :
       \E cdata_len \in CompressedLens(RLen(encoder)) :
          LET r == finish_fails(Self, cdata_len, at)
          IN  /\ Fails(r, at)
              /\ last' = Call("finish", r, <<>>)
    /\ finishes' = finishes + 1
    /\ UNCHANGED <<dropped, accepted, writes, input, todo, raw_fields, parsed>>

\* impl Drop when the sink fails: let _r = self.finish(); drops the error.
DropFails ==
    /\ ~dropped
    /\ fault.n < MaxFaults
    /\ \E at \in FailsOfFinish(Self) :
       \E cdata_len \in CompressedLens(RLen(encoder)) :
          LET r == finish_fails(Self, cdata_len, at)
          IN  /\ Fails(r, at)
              /\ last' = [Call("drop", r, <<>>) EXCEPT !.res = "Ok"]
    /\ dropped' = TRUE
    /\ UNCHANGED <<accepted, writes, finishes, input, todo, raw_fields, parsed>>

NextFail ==
    \/ Write \/ Flush \/ Finish \/ Drop
    \/ WriteFails \/ FlushFails \/ FinishFails \/ DropFails

SpecFail == Init /\ [][NextFail]_vars

-----------------------------------------------------------------------------
(* A caller writing `input` through a retry loop, as io::Write::write_all  *)
(* does, and then calling finish() once.                                   *)

LoopInputs ==
    {Pattern(n) : n \in {0, 1, MAX_BGZF_BLOCK_SIZE - 1, MAX_BGZF_BLOCK_SIZE,
                          MAX_BGZF_BLOCK_SIZE + 1, 2 * MAX_BGZF_BLOCK_SIZE,
                          2 * MAX_BGZF_BLOCK_SIZE + 1}}
    \cup {Noodles}

InitLoop ==
    /\ inner = <<>>
    /\ encoder = <<>>
    /\ crc = CrcNew
    /\ dropped = FALSE
    /\ accepted = <<>>
    /\ last = [op |-> "new", res |-> "Ok", n |-> 0, buf |-> <<>>, amt0 |-> 0]
    /\ writes = 0
    /\ finishes = 0
    /\ input \in LoopInputs
    /\ todo = input
    /\ fault = NoFault
    /\ raw_fields = <<>>
    /\ parsed = NotParsed

\* while !buf.is_empty() { match self.write(buf) { Ok(n) => buf = &buf[n..],
\* Err(Interrupted) => {} } }
LoopWrite ==
    /\ todo # <<>>
    /\ finishes = 0
    /\ \E k \in WriteTakes(Self, todo) :
       \E cdata_len \in CompressedLens(RLen(encoder)) :
          LET r == write(Self, todo, k, cdata_len)
          IN  /\ Becomes(r)
              /\ accepted' = RCat(accepted, RTake(todo, r.n))
              /\ last' = Call("write", r, todo)
              /\ todo' = RDrop(todo, r.n)
    /\ writes' = writes + 1
    /\ UNCHANGED <<dropped, finishes, input, raw_fields, parsed>>

LoopFinish ==
    /\ todo = <<>>
    /\ finishes = 0
    /\ \E cdata_len \in CompressedLens(RLen(encoder)) :
          LET r == finish(Self, cdata_len)
          IN  /\ Becomes(r)
              /\ last' = Call("finish", r, <<>>)
    /\ finishes' = finishes + 1
    /\ UNCHANGED <<dropped, accepted, writes, input, todo, raw_fields, parsed>>

NextLoop == LoopWrite \/ LoopFinish

SpecLoop == InitLoop /\ [][NextLoop]_vars

\* The loop goes on: it calls write again as long as bytes remain.
SpecLoopFair == SpecLoop /\ WF_vars(LoopWrite)

-----------------------------------------------------------------------------
(* Reading the sink back: the blocks it holds, in order.  A block is a     *)
(* header of BGZF_HEADER_SIZE bytes, a payload and a trailer of            *)
(* TRAILER_SIZE bytes.  The payload is one deflate token, or the two       *)
(* literal bytes of the empty deflate stream that BGZF_EOF carries.        *)

EmptyDeflate == Bytes(<<3, 0>>)

BlockAt(s) ==
    LET lit     == IsByte(s[BGZF_HEADER_SIZE + 1])
        plen    == IF lit THEN Len(EmptyDeflate) ELSE 1
        trailer == SubSeq(s, BGZF_HEADER_SIZE + plen + 1,
                          BGZF_HEADER_SIZE + plen + TRAILER_SIZE)
    IN  [tokens    |-> BGZF_HEADER_SIZE + plen + TRAILER_SIZE,
         BSIZE     |-> LEValue(SubSeq(s, BGZF_HEADER_SIZE - 1, BGZF_HEADER_SIZE)),
         cdata_len |-> IF lit THEN plen ELSE s[BGZF_HEADER_SIZE + 1].len,
         data      |-> IF lit THEN <<>> ELSE s[BGZF_HEADER_SIZE + 1].deflate,
         crc       |-> LEValue(SubSeq(trailer, 1, 4)),
         isize     |-> LEValue(SubSeq(trailer, 5, 8)),
         eof       |-> /\ Len(s) >= Len(BGZF_EOF)
                       /\ SubSeq(s, 1, Len(BGZF_EOF)) = BGZF_EOF]

RECURSIVE Blocks(_)
Blocks(s) ==
    IF Len(s) < BGZF_HEADER_SIZE + 1 + TRAILER_SIZE THEN <<>>
    ELSE LET b == BlockAt(s)
         IN  <<b>> \o Blocks(SubSeq(s, b.tokens + 1, Len(s)))

\* The bytes a block occupies in the sink.
OnDisk(b) == BGZF_HEADER_SIZE + b.cdata_len + TRAILER_SIZE

\* The payloads of the blocks, inflated and concatenated.
RECURSIVE Payload(_)
Payload(bs) == IF bs = <<>> THEN <<>> ELSE RCat(Head(bs).data, Payload(Tail(bs)))

\* The checksum of a whole byte string.
Checksum(data) == CrcSum(CrcUpdate(CrcNew, data))

DataBlocks(bs) == SelectSeq(bs, LAMBDA b : ~b.eof)
EofBlocks(bs) == SelectSeq(bs, LAMBDA b : b.eof)

\* The number of bytes in the blocks before block i.
RECURSIVE Before(_, _)
Before(bs, i) == IF i = 1 THEN 0 ELSE bs[i - 1].isize + Before(bs, i - 1)

EndsWithEof(s) ==
    /\ Len(s) >= Len(BGZF_EOF)
    /\ SubSeq(s, Len(s) - Len(BGZF_EOF) + 1, Len(s)) = BGZF_EOF

-----------------------------------------------------------------------------
(* noodles-sam: ReferenceSequence::try_from over the fields of an @SQ      *)
(* header record.  A string is the sequence of its characters.             *)

\* The number of fields of a record.
MaxFields == 3

\* i32::MAX; i32::MIN is -I32_MAX - 1.
I32_MAX == 2147483647

Digits == <<"0", "1", "2", "3", "4", "5", "6", "7", "8", "9">>
IsDigit(c) == \E i \in DOMAIN Digits : Digits[i] = c
DigitOf(c) == (CHOOSE i \in DOMAIN Digits : Digits[i] = c) - 1

ParseIntError == [ok |-> FALSE, v |-> 0]

\* The digits of <i32 as FromStr>::from_str: acc is the value so far, a
\* negative number is accumulated downwards; a character that is no digit
\* and a value outside i32 are errors.
RECURSIVE parse_digits(_, _, _)
parse_digits(s, acc, neg) ==
    IF s = <<>> THEN [ok |-> TRUE, v |-> acc]
    ELSE IF ~IsDigit(Head(s)) THEN ParseIntError
    ELSE LET d == DigitOf(Head(s))
         IN  IF neg
             THEN IF \/ -acc > I32_MAX \div 10
                     \/ (-acc = I32_MAX \div 10 /\ d > (I32_MAX % 10) + 1)
                  THEN ParseIntError
                  ELSE parse_digits(Tail(s), acc * 10 - d, neg)
             ELSE IF \/ acc > I32_MAX \div 10
                     \/ (acc = I32_MAX \div 10 /\ d > I32_MAX % 10)
                  THEN ParseIntError
                  ELSE parse_digits(Tail(s), acc * 10 + d, neg)

\* value.parse::<i32>(): an optional sign, then at least one digit.
parse_i32(s) ==
    IF s = <<>> THEN ParseIntError
    ELSE IF Head(s) \in {"+", "-"}
    THEN IF Tail(s) = <<>> THEN ParseIntError
         ELSE parse_digits(Tail(s), 0, Head(s) = "-")
    ELSE parse_digits(s, 0, FALSE)

\* reference_sequence::Tag.
Tag(variant, s) == [tag |-> variant, s |-> s]
TagName == Tag("Name", <<>>)
TagLen == Tag("Len", <<>>)
TagMd5Checksum == Tag("Md5Checksum", <<>>)
TagOther(s) == Tag("Other", s)

SN == <<"S", "N">>
LN == <<"L", "N">>
M5 == <<"M", "5">>

\* <Tag as FromStr>::from_str: the tags of the format, any other string of two
\* characters as Other, and an error for the rest.
tag_from_str(s) ==
    IF s = SN THEN [ok |-> TRUE, v |-> TagName]
    ELSE IF s = LN THEN [ok |-> TRUE, v |-> TagLen]
    ELSE IF s = M5 THEN [ok |-> TRUE, v |-> TagMd5Checksum]
    ELSE IF Len(s) = 2 THEN [ok |-> TRUE, v |-> TagOther(s)]
    ELSE [ok |-> FALSE, v |-> s]

\* ParseError and Ok(reference_sequence).
InvalidTag(s) == [kind |-> "InvalidTag", of |-> s]
InvalidValue(tag) == [kind |-> "InvalidValue", of |-> tag]
MissingRequiredTag(tag) == [kind |-> "MissingRequiredTag", of |-> tag]
Ok(reference_sequence) == [kind |-> "Ok", of |-> reference_sequence]

\* ReferenceSequence::default().
Default == [name |-> <<>>, len |-> 0, fields |-> <<>>]

\* HashMap::insert: the value replaces the one the key had.
insert(fields, tag, value) ==
    [t \in DOMAIN fields \cup {tag} |-> IF t = tag THEN value ELSE fields[t]]

\* The check after the loop, with the length looked at first.
required_LenFirst(reference_sequence, has_name, has_len) ==
    IF ~has_len THEN MissingRequiredTag(TagLen)
    ELSE IF ~has_name THEN MissingRequiredTag(TagName)
    ELSE Ok(reference_sequence)

\* The check after the loop: if !has_name .. else if !has_len ..
required(reference_sequence, has_name, has_len) ==
    IF ~has_name THEN MissingRequiredTag(TagName)
    ELSE IF ~has_len THEN MissingRequiredTag(TagLen)
    ELSE Ok(reference_sequence)

\* The loop of try_from over the fields that remain; each ? returns at once.
RECURSIVE try_from_loop(_, _, _, _)
try_from_loop(fs, reference_sequence, has_name, has_len) ==
    IF fs = <<>> THEN required(reference_sequence, has_name, has_len)
    ELSE LET raw_tag == Head(fs)[1]
             value   == Head(fs)[2]
             tag     == tag_from_str(raw_tag)
             len     == parse_i32(value)
         IN  IF ~tag.ok THEN InvalidTag(raw_tag)
             ELSE IF tag.v = TagName
             THEN try_from_loop(Tail(fs),
                                [reference_sequence EXCEPT !.name = value],
                                TRUE, has_len)
             ELSE IF tag.v = TagLen
             THEN IF ~len.ok THEN InvalidValue(TagLen)
                  ELSE try_from_loop(Tail(fs),
                                     [reference_sequence EXCEPT !.len = len.v],
                                     has_name, TRUE)
             ELSE try_from_loop(Tail(fs),
                                [reference_sequence EXCEPT
                                    !.fields = insert(@, tag.v, value)],
                                has_name, has_len)

try_from(fs) == try_from_loop(fs, Default, FALSE, FALSE)

\* The fields of the records the model parses: names, lengths that parse and
\* lengths that do not, a checksum, a tag of the user's, and a tag that does
\* not parse.
FieldPairs ==
    {<<SN, <<"s", "q", "0">>>>, <<SN, <<"s", "q", "1">>>>,
     <<LN, <<"1", "3">>>>, <<LN, <<"-", "8">>>>, <<LN, <<"x">>>>,
     <<LN, <<"2", "1", "4", "7", "4", "8", "3", "6", "4", "8">>>>,
     <<M5, <<"d", "7">>>>, <<M5, <<"e", "0">>>>,
     <<<<"N", "D">>, <<"v">>>>, <<<<"N", "D", "L">>, <<"v">>>>}

RawFields == UNION {[1..n -> FieldPairs] : n \in 0..MaxFields}

InitSq ==
    /\ inner = <<>>
    /\ encoder = <<>>
    /\ crc = CrcNew
    /\ dropped = FALSE
    /\ accepted = <<>>
    /\ last = [op |-> "new", res |-> "Ok", n |-> 0, buf |-> <<>>, amt0 |-> 0]
    /\ writes = 0
    /\ finishes = 0
    /\ input = <<>>
    /\ todo = <<>>
    /\ fault = NoFault
    /\ raw_fields \in RawFields
    /\ parsed = NotParsed

TryFrom ==
    /\ parsed = NotParsed
    /\ parsed' = try_from(raw_fields)
    /\ UNCHANGED <<inner, encoder, crc, dropped, accepted, last, writes,
                   finishes, input, todo, fault, raw_fields>>

NextSq == TryFrom

SpecSq == InitSq /\ [][NextSq]_vars

-----------------------------------------------------------------------------
(* The properties.                                                         *)

SinkBlocks == Blocks(inner)

\* C1: when a finish() that follows write and flush calls returns Ok, the last
\* 28 bytes of the sink are the end-of-file marker; and if no byte was ever
\* accepted the sink is the marker and nothing else.
C1_EofPresence ==
    (last.op = "finish" /\ last.res = "Ok") =>
        /\ EndsWithEof(inner)
        /\ (accepted = <<>> /\ finishes = 1) => inner = BGZF_EOF

\* The scenario of tests::test_finish: "noodles", then finish().
C1_Witness ==
    /\ last.op = "finish"
    /\ accepted = Noodles
    /\ EndsWithEof(inner)
    /\ Len(SinkBlocks) = 2

\* C2: the number of bytes accumulated since the last flush is at most 65536
\* in every state, and so is the uncompressed length (ISIZE) in the trailer of
\* every block of the sink.
C2_Cap ==
    /\ CrcAmount(crc) <= MAX_BGZF_BLOCK_SIZE
    /\ RLen(encoder) <= MAX_BGZF_BLOCK_SIZE
    /\ \A i \in DOMAIN SinkBlocks : SinkBlocks[i].isize <= MAX_BGZF_BLOCK_SIZE

\* A write that the cap cut short, on top of a block already in the sink.
C2_Witness ==
    /\ last.op = "write"
    /\ last.n < RLen(last.buf)
    /\ CrcAmount(crc) = MAX_BGZF_BLOCK_SIZE
    /\ Len(SinkBlocks) >= 1

\* C3: N bytes written through the retry loop and one finish() leave
\* ceil(N / 65536) data blocks and then one end-of-file marker in the sink; every
\* data block but the last holds 65536 bytes, the last one the remainder.
C3_BlockCount ==
    (last.op = "finish" /\ last.res = "Ok") =>
        LET bs  == SinkBlocks
            N   == RLen(input)
            cnt == (N + MAX_BGZF_BLOCK_SIZE - 1) \div MAX_BGZF_BLOCK_SIZE
        IN  /\ Len(bs) = cnt + 1
            /\ bs[cnt + 1].eof
            /\ \A i \in 1..cnt :
                  /\ ~bs[i].eof
                  /\ RLen(bs[i].data) = bs[i].isize
                  /\ bs[i].isize = IF i < cnt THEN MAX_BGZF_BLOCK_SIZE
                                   ELSE N - MAX_BGZF_BLOCK_SIZE * (cnt - 1)

\* 65537 bytes: blocks of 65536 and 1 bytes, and the marker.
C3_Witness ==
    /\ last.op = "finish"
    /\ RLen(input) = MAX_BGZF_BLOCK_SIZE + 1
    /\ Len(SinkBlocks) = 3
    /\ SinkBlocks[2].isize = 1

\* C4: the payloads of the blocks of the sink, in sink order, followed by the
\* bytes still held by the compressor, are the bytes the write calls accepted,
\* in call order; so with nothing left to flush the payloads are exactly the
\* accepted bytes.
C4_RoundTrip ==
    LET p == Payload(SinkBlocks)
    IN  /\ RCat(p, encoder) = accepted
        /\ CrcAmount(crc) = 0 => p = accepted

\* Two data blocks of different content, all flushed.
C4_Witness ==
    /\ Len(DataBlocks(SinkBlocks)) = 2
    /\ DataBlocks(SinkBlocks)[1].data # DataBlocks(SinkBlocks)[2].data
    /\ CrcAmount(crc) = 0
    /\ last.op = "finish"

\* A step that is a call of write.
WriteStep == last'.op = "write" /\ writes' = writes + 1

\* C5: write on a full accumulation buffer flushes that block to the sink,
\* accepts no byte of the caller's buffer and returns Interrupted; the
\* accumulated count is 0 after it.
C5_FullWrite ==
    [][(WriteStep /\ CrcAmount(crc) = MAX_BGZF_BLOCK_SIZE) =>
          LET bs == Blocks(inner')
          IN  /\ last'.res = "Interrupted"
              /\ accepted' = accepted
              /\ CrcAmount(crc') = 0
              /\ encoder' = <<>>
              /\ Len(inner') > Len(inner)
              /\ SubSeq(inner', 1, Len(inner)) = inner
              /\ Len(bs) = Len(SinkBlocks) + 1
              /\ bs[Len(bs)].data = encoder
              /\ bs[Len(bs)].isize = MAX_BGZF_BLOCK_SIZE]_vars

C5_Witness ==
    /\ last.op = "write"
    /\ last.res = "Interrupted"
    /\ last.amt0 = MAX_BGZF_BLOCK_SIZE
    /\ last.buf # <<>>

\* The bytes accepted and not yet in a block of the sink, after a step.
PendingAfter == RDrop(accepted', RLen(Payload(Blocks(inner'))))

\* What a write of k bytes into a buffer that is not full does: the count and
\* the checksum advance by the first k bytes of the buffer, and by no more; the
\* sink is left alone.
C6_Advance(k) ==
    /\ last'.res = "Ok"
    /\ last'.n = k
    /\ accepted' = RCat(accepted, RTake(last'.buf, k))
    /\ CrcAmount(crc') = CrcAmount(crc) + k
    /\ CrcSum(crc') = Checksum(PendingAfter)
    /\ encoder' = RCat(encoder, RTake(last'.buf, k))
    /\ inner' = inner

\* C6, as claimed: write of a buffer of length L on A < 65536 accumulated bytes
\* returns k = min(L, 65536 - A), advances the count and the checksum by the
\* first k bytes and writes nothing to the sink.
C6_Original ==
    [][(WriteStep /\ CrcAmount(crc) < MAX_BGZF_BLOCK_SIZE) =>
          C6_Advance(Min(RLen(last'.buf), MAX_BGZF_BLOCK_SIZE - CrcAmount(crc)))]_vars

\* C6, amended: write of a buffer of length L on A < 65536 accumulated bytes
\* returns the number k of bytes the compressor took, k <= min(L, 65536 - A);
\* it advances the count and the checksum by the first k bytes and writes
\* nothing to the sink.
C6_PartialWrite ==
    [][(WriteStep /\ CrcAmount(crc) < MAX_BGZF_BLOCK_SIZE) =>
          /\ last'.n <= Min(RLen(last'.buf), MAX_BGZF_BLOCK_SIZE - CrcAmount(crc))
          /\ C6_Advance(last'.n)]_vars

\* A write that took less than what fits, on a buffer that held bytes already.
C6_Witness ==
    /\ last.op = "write"
    /\ last.res = "Ok"
    /\ last.amt0 > 0
    /\ last.n > 0
    /\ last.n < Min(RLen(last.buf), MAX_BGZF_BLOCK_SIZE - last.amt0)

\* C7: the trailer of every data block holds the number of the bytes accepted
\* since the flush before it and the checksum of those bytes alone; after a
\* call that flushed, the count and the checksum are those of a new Writer.
C7_Trailer ==
    LET bs == SinkBlocks
    IN  /\ \A i \in DOMAIN bs :
              ~bs[i].eof =>
                  LET slice == RTake(RDrop(accepted, Before(bs, i)), bs[i].isize)
                  IN  /\ bs[i].data = slice
                      /\ bs[i].isize = RLen(slice)
                      /\ bs[i].crc = Checksum(slice)
        /\ ((last.op \in {"flush", "finish", "drop"} /\ last.res = "Ok")
              \/ last.res = "Interrupted")
              => (crc = CrcNew /\ encoder = <<>>)

\* A second data block, written by flush.
C7_Witness ==
    /\ last.op = "flush"
    /\ last.amt0 > 0
    /\ Len(DataBlocks(SinkBlocks)) = 2
    /\ SinkBlocks[1].crc # SinkBlocks[2].crc

\* C8: flush with nothing accumulated changes neither the sink nor the Writer;
\* and no data block of the sink has the uncompressed length 0: the blocks of
\* length 0 are end-of-file markers.
C8_FlushNoop ==
    [][/\ (last'.op = "flush" /\ CrcAmount(crc) = 0)
             => UNCHANGED <<inner, encoder, crc, accepted>>
       /\ \A i \in DOMAIN Blocks(inner') :
             LET b == Blocks(inner')[i]
             IN  (b.isize = 0 \/ b.data = <<>>) => b.eof]_vars

\* A flush right after a block was flushed.
C8_Witness ==
    /\ last.op = "flush"
    /\ last.amt0 = 0
    /\ Len(DataBlocks(SinkBlocks)) >= 1
    /\ ~EndsWithEof(inner)

\* C9: the BSIZE field of every block is payload_len + header_size +
\* trailer_size - 1, not truncated to 16 bits: BSIZE + 1 is at most 65536 and
\* is the number of bytes written for the block.
C9_Bsize ==
    \A i \in DOMAIN SinkBlocks :
        LET b == SinkBlocks[i]
        IN  /\ b.BSIZE = b.cdata_len + BGZF_HEADER_SIZE + TRAILER_SIZE - 1
            /\ b.BSIZE + 1 <= MAX_BGZF_BLOCK_SIZE
            /\ b.BSIZE + 1 = OnDisk(b)

\* C10: once the Writer is dropped the sink holds the end-of-file marker
\* exactly once, as its last 28 bytes.
C10_EofOnce ==
    dropped =>
        /\ Len(EofBlocks(SinkBlocks)) = 1
        /\ EndsWithEof(inner)


\* C11: after teardown nothing is pending and the result of the implicit
\* finish() is not reported, whether or not the sink failed; when the sink has
\* not failed, the sink ends with the end-of-file marker, the payloads of its
\* blocks are the accepted bytes, and the bytes that were pending at teardown
\* are the data block just before the marker that teardown wrote.
C11_DropFinishes ==
    dropped =>
        /\ last.op = "drop"
        /\ last.res = "Ok"
        /\ SinkUp =>
              LET bs == SinkBlocks
                  d  == DataBlocks(bs)
              IN  /\ EndsWithEof(inner)
                  /\ Payload(bs) = accepted
                  /\ crc = CrcNew
                  /\ encoder = <<>>
                  /\ last.amt0 > 0 =>
                        /\ Len(bs) >= 2
                        /\ ~bs[Len(bs) - 1].eof
                        /\ bs[Len(bs) - 1].isize = last.amt0
                        /\ bs[Len(bs) - 1].data =
                              RDrop(accepted, RLen(accepted) - last.amt0)
        /\ ~SinkUp => fault.at \in 1..EofWrite

\* A teardown with bytes pending, on a sink that works.
C11_Witness ==
    /\ dropped
    /\ SinkUp
    /\ last.amt0 > 0
    /\ finishes = 0
    /\ EndsWithEof(inner)

\* A teardown during which the sink failed.
C11_DropDiscards ==
    /\ dropped
    /\ fault.at \in 1..BlockWrites
    /\ last.res = "Ok"
    /\ ~EndsWithEof(inner)

\* The tokens a step appends to the sink.
Added == SubSeq(inner', Len(inner) + 1, Len(inner'))

\* A step in which the sink fails; InBlock: while a block is being written.
SinkFails == fault'.n = fault.n + 1
InBlock == fault'.at \in 1..BlockWrites

\* C14: in a step in which the sink fails, write, flush and finish return the
\* sink's error (write does not return Interrupted), the sink keeps what it had
\* and the step does not append the end-of-file marker to it; when it fails
\* while a block is being written, the count, the checksum and the
\* compressor's input are those before the call, the count is not 0, and the
\* accepted bytes are the same; less than a block has reached the sink.
C14_SinkError ==
    [][SinkFails =>
          /\ last'.op \in {"write", "flush", "finish"} => last'.res = "SinkError"
          /\ last'.n = 0
          /\ Len(inner') >= Len(inner)
          /\ SubSeq(inner', 1, Len(inner)) = inner
          /\ ~EndsWithEof(Added)
          /\ accepted' = accepted
          /\ InBlock =>
                /\ crc' = crc
                /\ encoder' = encoder
                /\ CrcAmount(crc') = last'.amt0
                /\ CrcAmount(crc') > 0
                /\ Len(Added) < BGZF_HEADER_SIZE + 1 + TRAILER_SIZE]_vars

\* A write on a full buffer whose flush failed after the header and the
\* payload had reached the sink.
C14_Witness ==
    /\ last.op = "write"
    /\ last.res = "SinkError"
    /\ fault.at = 13
    /\ CrcAmount(crc) = MAX_BGZF_BLOCK_SIZE
    /\ accepted # <<>>

\* A write() of the caller's loop that follows a write() that returned
\* Interrupted.
Retry == last.res = "Interrupted" /\ WriteStep

\* In the caller's loop a write that returns Interrupted leaves the
\* accumulation buffer empty and the remaining bytes as they were, and the
\* write after it returns Ok and accepts at least one of them.
RetryAccepts ==
    /\ (WriteStep /\ last'.res = "Interrupted") =>
          (crc' = CrcNew /\ encoder' = <<>> /\ todo' = todo /\ todo # <<>>)
    /\ Retry =>
          (last'.res = "Ok" /\ last'.n >= 1 /\ last'.amt0 = 0)

\* C13: on a sink that does not fail write never returns Interrupted twice in
\* a row (RetryAccepts holds of every step of the caller's loop), and the loop
\* eventually has every byte of the input accepted.
C13_Retry ==
    /\ [][RetryAccepts]_vars
    /\ <>(todo = <<>> /\ accepted = input)

\* The loop has written an input of more than two blocks: it has been
\* interrupted twice and every byte is accepted.
C13_Witness ==
    /\ todo = <<>>
    /\ accepted = input
    /\ RLen(input) > 2 * MAX_BGZF_BLOCK_SIZE
    /\ Len(DataBlocks(SinkBlocks)) = 2
    /\ CrcAmount(crc) = 1

\* The record that try_from was given: the raw tag and the value of field i,
\* whether a raw tag occurs, and the value of its last occurrence.
RawTag(i) == raw_fields[i][1]
Value(i) == raw_fields[i][2]
Occurs(raw) == \E i \in DOMAIN raw_fields : RawTag(i) = raw
LastValue(raw) ==
    Value(CHOOSE i \in DOMAIN raw_fields :
             /\ RawTag(i) = raw
             /\ \A j \in DOMAIN raw_fields : j > i => RawTag(j) # raw)

\* A field that try_from rejects: its raw tag does not parse, or it is an LN
\* whose value is no 32-bit integer.
BadTag(i) == ~tag_from_str(RawTag(i)).ok
BadLen(i) == RawTag(i) = LN /\ ~parse_i32(Value(i)).ok
WellFormed == \A i \in DOMAIN raw_fields : ~BadTag(i) /\ ~BadLen(i)

\* The raw tags other than SN and LN.
OtherTags == {RawTag(i) : i \in DOMAIN raw_fields} \ {SN, LN}

\* On success name and len hold the last SN and LN values, and fields holds
\* every other tag with its last value.
Holds(reference_sequence) ==
    /\ reference_sequence.name = LastValue(SN)
    /\ reference_sequence.len = parse_i32(LastValue(LN)).v
    /\ DOMAIN reference_sequence.fields =
          {tag_from_str(raw).v : raw \in OtherTags}
    /\ \A raw \in OtherTags :
          reference_sequence.fields[tag_from_str(raw).v] = LastValue(raw)

\* C12 as stated: try_from succeeds only on a well-formed record with SN and
\* LN; it returns MissingRequiredTag(Name) whenever SN is absent and
\* MissingRequiredTag(Len) whenever only LN is absent; on success the result
\* holds the last values.
C12_Original ==
    parsed # NotParsed =>
        /\ parsed.kind = "Ok" => (WellFormed /\ Occurs(SN) /\ Occurs(LN))
        /\ ~Occurs(SN) => parsed = MissingRequiredTag(TagName)
        /\ (Occurs(SN) /\ ~Occurs(LN)) => parsed = MissingRequiredTag(TagLen)
        /\ parsed.kind = "Ok" => Holds(parsed.of)

\* C12, amended: try_from succeeds if and only if the record is well-formed
\* and has SN and LN; the first field it rejects decides the error; on a
\* well-formed record it returns MissingRequiredTag(Name) when SN is absent
\* and MissingRequiredTag(Len) when only LN is absent; on success the result
\* holds the last values.
C12_TryFrom ==
    parsed # NotParsed =>
        /\ parsed.kind = "Ok" <=> (WellFormed /\ Occurs(SN) /\ Occurs(LN))
        /\ ~WellFormed =>
              LET i == CHOOSE k \in DOMAIN raw_fields :
                          /\ BadTag(k) \/ BadLen(k)
                          /\ \A j \in 1..(k - 1) : ~BadTag(j) /\ ~BadLen(j)
              IN  parsed = IF BadTag(i) THEN InvalidTag(RawTag(i))
                           ELSE InvalidValue(TagLen)
        /\ (WellFormed /\ ~Occurs(SN)) => parsed = MissingRequiredTag(TagName)
        /\ (WellFormed /\ Occurs(SN) /\ ~Occurs(LN))
              => parsed = MissingRequiredTag(TagLen)
        /\ parsed.kind = "Ok" => Holds(parsed.of)

\* A record without SN whose LN value is no integer: the error is that of the
\* value.
C12_Witness ==
    /\ parsed # NotParsed
    /\ ~Occurs(SN)
    /\ Occurs(LN)
    /\ parsed = InvalidValue(TagLen)

\* A record with two SN, an LN and a checksum: the result holds the last name.
C12_Success ==
    /\ parsed # NotParsed
    /\ parsed.kind = "Ok"
    /\ Len(raw_fields) = MaxFields
    /\ Value(1) # parsed.of.name
    /\ RawTag(1) = SN

=============================================================================
